---- MODULE Spec2Model ----
(***************************************************************************)
(* A model of fao-download (src/main.py): the per-country pipeline parse,  *)
(* the directory builder get_countries and the __main__ run driver with    *)
(* its reconciliation report.                                              *)
(*                                                                         *)
(* Strings whose characters the program inspects (country names, file      *)
(* names, href values) are sequences of one-character strings, so that     *)
(* lower(), split(), replace(), glob and the regular expression are        *)
(* computed character by character as Python computes them.                *)
(***************************************************************************)
EXTENDS Integers, Sequences, FiniteSets, TLC

VARIABLES
    fs,         \* the files present under save/ and cache/
    pc,         \* position of the __main__ script
    countries,  \* the region -> countries mapping, an ordered dict
    ri,         \* index of the region being fetched / iterated
    ci,         \* index of the country inside region ri
    last,       \* record of the latest parse invocation (NoCall before any)
    lastList,   \* record of the latest get_countries invocation
    attempted,  \* countries the driver loop handed to parse, in order
    report,     \* the set printed by the final reconciliation
    late,       \* country -> its guideline files when it first failed late
    ncalls      \* number of parse invocations made so far

vars == <<fs, pc, countries, ri, ci, last, lastList, attempted, report, late, ncalls>>

(***************************************************************************)
(* Bounds of the model.                                                    *)
(***************************************************************************)
MaxCountries == 2   \* countries in one region -> countries mapping
MaxCalls == 3       \* parse invocations in the pipeline-only specification

(***************************************************************************)
(* Characters and strings.                                                 *)
(***************************************************************************)
Upper == <<"A","B","C","D","E","F","G","H","I","J","K","L","M",
           "N","O","P","Q","R","S","T","U","V","W","X","Y","Z">>
Lowercase == <<"a","b","c","d","e","f","g","h","i","j","k","l","m",
               "n","o","p","q","r","s","t","u","v","w","x","y","z">>
DigitChars == <<"0","1","2","3","4","5","6","7","8","9">>
Whitespace == {" ", "\t", "\n"}

IsUpper(ch) == \E i \in DOMAIN Upper : Upper[i] = ch

\* str.lower() on one character
LowerChar(ch) ==
    IF IsUpper(ch) THEN Lowercase[CHOOSE i \in DOMAIN Upper : Upper[i] = ch] ELSE ch

\* str.lower()
Lower(s) == [i \in DOMAIN s |-> LowerChar(s[i])]

\* s[i..j], empty when j < i
Slice(s, i, j) == IF j < i THEN <<>> ELSE SubSeq(s, i, j)

StartsWith(s, p) == Len(s) >= Len(p) /\ Slice(s, 1, Len(p)) = p
EndsWith(s, p) == Len(s) >= Len(p) /\ Slice(s, Len(s) - Len(p) + 1, Len(s)) = p

\* p occurs in s at position i
OccursAt(s, p, i) == i >= 1 /\ i + Len(p) - 1 <= Len(s) /\ Slice(s, i, i + Len(p) - 1) = p

\* the substring test  p in s
Contains(s, p) == \E i \in 1..Len(s) : OccursAt(s, p, i)

\* str(idx) for a non-negative integer
RECURSIVE Str(_)
Str(n) == IF n < 10 THEN <<DigitChars[n + 1]>>
          ELSE Str(n \div 10) \o <<DigitChars[(n % 10) + 1]>>

\* str.split(): the maximal runs of non-whitespace characters
RECURSIVE SplitWS(_, _)
SplitWS(s, cur) ==
    IF s = <<>> THEN (IF cur = <<>> THEN <<>> ELSE <<cur>>)
    ELSE IF Head(s) \in Whitespace
         THEN (IF cur = <<>> THEN <<>> ELSE <<cur>>) \o SplitWS(Tail(s), <<>>)
         ELSE SplitWS(Tail(s), Append(cur, Head(s)))

\* sep.join(parts)
RECURSIVE Join(_, _)
Join(sep, parts) ==
    IF parts = <<>> THEN <<>>
    ELSE IF Len(parts) = 1 THEN parts[1]
    ELSE parts[1] \o sep \o Join(sep, Tail(parts))

\* str.replace(pat, ''): remove the non-overlapping occurrences, left to right
RECURSIVE Remove(_, _)
Remove(s, pat) ==
    IF s = <<>> THEN <<>>
    ELSE IF OccursAt(s, pat, 1) THEN Remove(Slice(s, Len(pat) + 1, Len(s)), pat)
    ELSE <<Head(s)>> \o Remove(Tail(s), pat)

\* str.split('-')[-1]: what follows the last hyphen (the whole string if none)
LastToken(s) ==
    LET hy == {i \in 1..Len(s) : s[i] = "-"}
    IN  IF hy = {} THEN s
        ELSE Slice(s, (CHOOSE i \in hy : \A j \in hy : j <= i) + 1, Len(s))

(***************************************************************************)
(* Literals of the program.                                                *)
(***************************************************************************)
SAVE_PATH == "save"      \* line 20
CACHE_PATH == "cache"    \* line 18
HTTP_OK == 200

DescPrefix == <<"f","a","o","-","d","e","s","c","r","i","p","t","i","o","n","-">>    \* 'fao-description-'
GuidePrefix == <<"f","o","o","d","-","g","u","i","d","e","l","i","n","e","-">>    \* 'food-guideline-'
FoodPrefix == <<"f","o","o","d","-">>    \* 'food-'
DotPdf == <<".","p","d","f">>    \* '.pdf'
ZeroDotPdf == <<"0",".","p","d","f">>    \* '0.pdf'
UrlSuffix == <<"-","u","r","l">>    \* '-url'
PdfSuffix == <<"-","p","d","f">>    \* '-pdf'
Hyphen == <<"-">>

\* base_url.format(x), line 158: the fixed head, the argument, the fixed tail
CountryUrl(x) ==
    <<"https://www.fao.org/nutrition/education/food-dietary-guidelines/regions/countries/">>
        \o x \o <<"/en/">>

\* base_url.format(r), line 148
RegionUrl(r) ==
    <<"https://www.fao.org/nutrition/education/food-dietary-guidelines/regions/", r, "/en/">>

regions == <<"africa", "asia-pacific", "europe", "latin-america-caribbean",
             "near-east", "north-america">>

kenya == <<"k","e","n","y","a">>
Kenya == <<"K","e","n","y","a">>
SouthAfrica == <<"S","o","u","t","h"," ","A","f","r","i","c","a">>
GuineaBissau == <<"G","u","i","n","e","a","-","B","i","s","s","a","u">>

\* '-'.join(c.lower().split()), line 161
Normalize(c) == Join(Hyphen, SplitWS(Lower(c), <<>>))

File(dir, name) == [dir |-> dir, name |-> name]
NoFile == [dir |-> "", name |-> <<>>]
NoUrl == <<>>

\* SAVE_PATH / f'fao-description-{c}.pdf', line 45
page_file(c) == File(SAVE_PATH, DescPrefix \o c \o DotPdf)
\* CACHE_PATH / f'{c}-url', line 57
f1(c) == File(CACHE_PATH, c \o UrlSuffix)
\* CACHE_PATH / f'{c}-pdf{idx}', line 70
f2(c, idx) == File(CACHE_PATH, c \o PdfSuffix \o Str(idx))
\* f'food-guideline-{c}{idx}.pdf' under path = SAVE_PATH, lines 74-76
fn(c, idx) == File(SAVE_PATH, GuidePrefix \o c \o Str(idx) \o DotPdf)

(***************************************************************************)
(* The environment of one parse invocation: what the network, the page and *)
(* the rendering engine answer.                                            *)
(***************************************************************************)
Elem(tag, href) == [tag |-> tag, href |-> href]

A_pdf == Elem("a", <<"a",".","p","d","f">>)                 \* <a href="a.pdf">
B_pdf == Elem("a", <<"b",".","p","d","f">>)                 \* <a href="b.pdf">
A_PDF == Elem("a", <<"r","e","p","o","r","t",".","P","D","F","?","x","=","1">>)    \* <a href="report.PDF?x=1">
A_mypdf == Elem("a", <<"/","m","y","p","d","f","/">>)          \* <a href="/mypdf/">
A_bare == Elem("a", <<"p","d","f">>)                  \* <a href="pdf">
A_html == Elem("a", <<"x",".","h","t","m","l">>)              \* <a href="x.html">
Link_pdf == Elem("link", <<"s",".","p","d","f">>)           \* <link href="s.pdf">

Pages == { <<>>,
           <<A_pdf, A_PDF>>,
           <<A_pdf, B_pdf>>,
           <<A_html, A_mypdf>>,
           <<Link_pdf, A_html>>,
           <<A_bare>> }

Statuses == {HTTP_OK, 404}

\* outcomes of page2pdf's two steps: decode('utf8') and pdfkit.from_string;
\* the disk answer "denied" makes the first write_bytes under cache/ raise
RenderOutcomes == {"ok", "undecodable", "raise", "raise_written", "silent"}

\* re.compile(r'.*.pdf').search(s): the dots are unescaped, so the pattern is
\* "any characters, one character other than a newline, then pdf"
ReSearch(s) ==
    \E i \in 2..Len(s) : OccursAt(s, <<"p","d","f">>, i) /\ s[i - 1] # "\n"

\* soup.find_all(href=re.compile(r'.*.pdf')), line 61: every element, of any
\* tag, whose href attribute the pattern matches, in document order
find_all(page) == SelectSeq(page, LAMBDA e : ReSearch(e.href))

\* the answers an invocation can meet; fields a run never looks at are fixed
Envs ==
    { e \in [status : Statuses, redirected : BOOLEAN, render : RenderOutcomes,
             disk : {"ok", "denied"}, page : Pages, dl : [1..2 -> Statuses]] :
        /\ (e.status = HTTP_OK => ~e.redirected)
        /\ (e.status # HTTP_OK => e.render = "ok")
        /\ (e.render # "ok" \/ e.status # HTTP_OK => e.disk = "ok")
        /\ (e.render # "ok" \/ e.status # HTTP_OK \/ e.disk # "ok" => e.page = <<>>)
        /\ \A i \in 1..2 : i > Len(find_all(e.page)) => e.dl[i] = HTTP_OK }

\* response.url, the address after redirects
Resolved(url, env) ==
    IF env.redirected THEN <<"https://www.fao.org/404/">> ELSE url

(***************************************************************************)
(* parse, lines 31-78.                                                     *)
(***************************************************************************)
Ev(op, url, file) == [op |-> op, url |-> url, file |-> file]
Sleep == Ev("sleep", NoUrl, NoFile)
Get(url) == Ev("get", url, NoFile)
Render(file) == Ev("render", NoUrl, file)
WriteBytes(file) == Ev("write", NoUrl, file)

Returned(file) == [kind |-> "return", exc |-> "", text |-> "", url |-> NoUrl, file |-> file]
Raised(exc, text, url, file) ==
    [kind |-> "raise", exc |-> exc, text |-> text, url |-> url, file |-> file]

Outcome(files, trace, result) == [fs |-> files, trace |-> trace, result |-> result]

\* a variant of Duplicate: the existence check is lost
DuplicateNever(c, files) == FALSE

\* a variant of Duplicate: the check looks at the first guideline PDF
DuplicateGuideline(c, files) == fn(c, 0) \in files

\* line 46: page_file.exists()
Duplicate(c, files) == page_file(c) \in files

\* a variant of StatusOk: the status is not looked at
StatusAny(status) == TRUE

\* lines 54 and 68: the asserted condition on a response
StatusOk(status) == status = HTTP_OK

\* page2pdf, lines 105-117: the files afterwards, the events, and the error
\* raised (a result of kind "return" when it returns)
page2pdf(cache_file, files, outcome) ==
    IF outcome = "undecodable"
    THEN Outcome(files, <<>>, Raised("UnicodeDecodeError", "", NoUrl, NoFile))
    ELSE LET written == IF outcome \in {"ok", "raise_written"}
                        THEN files \cup {cache_file} ELSE files
         IN  IF outcome \in {"raise", "raise_written"}
             THEN Outcome(written, <<Render(cache_file)>>,
                          Raised("OSError", "wkhtmltopdf", NoUrl, NoFile))
             ELSE IF cache_file \notin written
             THEN Outcome(written, <<Render(cache_file)>>,
                          Raised("AssertionError", "failed!", NoUrl, cache_file))
             ELSE Outcome(written, <<Render(cache_file)>>, Returned(cache_file))

\* gen_pdf, lines 81-93
gen_pdf(file, files) == files \cup {file}

\* a variant of Links: a link that fails is skipped, the loop goes on to its
\* siblings and the failure is raised after the loop
RECURSIVE LinksSkipBad(_, _, _, _, _, _, _)
LinksSkipBad(c, found, idx, stepwise, files, trace, env) ==
    IF idx >= Len(found)
    THEN LET bad == {i \in 1..Len(found) : env.dl[i] # HTTP_OK}
         IN  IF bad = {} THEN Outcome(files, trace, Returned(NoFile))
             ELSE Outcome(files, trace,
                          Raised("AssertionError", "invalid pdf url",
                                 found[CHOOSE i \in bad : \A j \in bad : i <= j].href, NoFile))
    ELSE LET pdf_link == found[idx + 1].href
             t1 == Append(trace, Get(pdf_link))
         IN  IF env.dl[idx + 1] # HTTP_OK
             THEN LinksSkipBad(c, found, idx + 1, stepwise, files, t1, env)
             ELSE LET cached == IF stepwise THEN files \cup {f2(c, idx)} ELSE files
                      t2 == IF stepwise THEN Append(t1, WriteBytes(f2(c, idx))) ELSE t1
                  IN  LinksSkipBad(c, found, idx + 1, stepwise, gen_pdf(fn(c, idx), cached),
                                   Append(t2, WriteBytes(fn(c, idx))), env)

\* the loop of lines 65-78 from index idx (0-based) on
RECURSIVE Links(_, _, _, _, _, _, _)
Links(c, found, idx, stepwise, files, trace, env) ==
    IF idx >= Len(found) THEN Outcome(files, trace, Returned(NoFile))
    ELSE LET pdf_link == found[idx + 1].href
             t1 == Append(trace, Get(pdf_link))
         IN  IF ~StatusOk(env.dl[idx + 1])
             THEN Outcome(files, t1, Raised("AssertionError", "invalid pdf url", pdf_link, NoFile))
             ELSE LET cached == IF stepwise THEN files \cup {f2(c, idx)} ELSE files
                      t2 == IF stepwise THEN Append(t1, WriteBytes(f2(c, idx))) ELSE t1
                  IN  Links(c, found, idx + 1, stepwise, gen_pdf(fn(c, idx), cached),
                            Append(t2, WriteBytes(fn(c, idx))), env)

\* lines 55-58: render the description PDF, then write the page cache
RenderAndCache(c, stepwise, files, trace, env) ==
    LET r == page2pdf(page_file(c), files, env.render)
    IN  IF r.result.kind = "raise" THEN Outcome(r.fs, trace \o r.trace, r.result)
        ELSE IF stepwise /\ env.disk = "denied"
        THEN Outcome(r.fs, trace \o r.trace, Raised("PermissionError", "write_bytes", NoUrl, f1(c)))
        ELSE IF stepwise
        THEN Outcome(r.fs \cup {f1(c)}, Append(trace \o r.trace, WriteBytes(f1(c))), r.result)
        ELSE Outcome(r.fs, trace \o r.trace, r.result)

parse(c, url, pause, stepwise, files, env) ==
    IF Duplicate(c, files) THEN Outcome(files, <<>>, Returned(page_file(c)))
    ELSE LET t0 == IF pause THEN <<Sleep>> ELSE <<>>
             t1 == Append(t0, Get(url))
         IN  IF ~StatusOk(env.status)
             THEN Outcome(files, t1, Raised("AssertionError", "invalid url", Resolved(url, env), NoFile))
             ELSE LET r == RenderAndCache(c, stepwise, files, t1, env)
                      found == find_all(env.page)
                  IN  IF r.result.kind = "raise" THEN r
                      ELSE IF Len(found) = 0
                      THEN Outcome(r.fs, r.trace,
                                   Raised("AssertionError", "invalid search condition", NoUrl, NoFile))
                      ELSE Links(c, found, 0, stepwise, r.fs, r.trace, env)

(***************************************************************************)
(* One parse invocation as a step of the state machine.                    *)
(***************************************************************************)
\* the environment of an invocation that asks it nothing
Idle == CHOOSE e \in Envs :
            e.status = HTTP_OK /\ e.render = "ok" /\ e.disk = "ok" /\ e.page = <<>>

\* the environments to consider for an invocation on country c: no answer is
\* drawn when the description PDF is there, as no request is then made
EnvsFor(c) == IF page_file(c) \in fs THEN {Idle} ELSE Envs

NoCall == [made |-> FALSE, c |-> <<>>, url |-> NoUrl, pause |-> FALSE, stepwise |-> FALSE,
           env |-> Idle,
           before |-> {}, trace |-> <<>>, result |-> Returned(NoFile)]

IsDigit(ch) == \E i \in DOMAIN DigitChars : DigitChars[i] = ch

\* the guideline PDFs of country c among files: food-guideline-{c}{idx}.pdf
GuidesOf(c, files) ==
    { f \in files :
        /\ f.dir = SAVE_PATH
        /\ StartsWith(f.name, GuidePrefix \o c)
        /\ EndsWith(f.name, DotPdf)
        /\ Len(f.name) > Len(GuidePrefix) + Len(c) + Len(DotPdf)
        /\ \A i \in (Len(GuidePrefix) + Len(c) + 1)..(Len(f.name) - Len(DotPdf)) :
              IsDigit(f.name[i]) }

\* a failure at link extraction (line 62) or at a link download (line 68)
LateFailure(result) ==
    /\ result.kind = "raise"
    /\ result.text \in {"invalid search condition", "invalid pdf url"}

Invoke(c, url, pause, stepwise, env) ==
    LET r == parse(c, url, pause, stepwise, fs, env)
    IN  /\ fs' = r.fs
        /\ last' = [made |-> TRUE, c |-> c, url |-> url, pause |-> pause,
                    stepwise |-> stepwise, env |-> env, before |-> fs,
                    trace |-> r.trace, result |-> r.result]
        /\ late' = IF LateFailure(r.result) /\ ~\E h \in late : h.c = c
                   THEN late \cup {[c |-> c, guides |-> GuidesOf(c, r.fs)]}
                   ELSE late
        /\ ncalls' = ncalls + 1

(***************************************************************************)
(* get_countries, lines 120-133.                                           *)
(***************************************************************************)
Cell(text, links) == [text |-> text, links |-> links]

\* what the site lists for a region: plain cells are countries, linked cells
\* are sub-navigation
SiteListing(r) ==
    IF r = "africa" THEN <<Cell(SouthAfrica, 0), Cell(<<"S","u","b">>, 1)>>
    ELSE IF r = "asia-pacific" THEN <<Cell(GuineaBissau, 0)>>
    ELSE <<>>

\* line 132: [it.get_text() for it in tds if not it.find_all('a')]
PlainTexts(tds) ==
    LET plain == SelectSeq(tds, LAMBDA it : it.links = 0)
    IN  [i \in DOMAIN plain |-> plain[i].text]

\* the country list get_countries derives from a response; the status is not
\* looked at
get_countries(status, body) == PlainTexts(body)

NoList == [made |-> FALSE, region |-> "", status |-> HTTP_OK, body |-> <<>>, cs |-> <<>>]

\* dict.update({region: cs}) on an insertion-ordered dict, line 154
DictUpdate(d, region, cs) ==
    IF \E i \in DOMAIN d : d[i].region = region
    THEN [i \in DOMAIN d |-> IF d[i].region = region THEN [region |-> region, cs |-> cs] ELSE d[i]]
    ELSE Append(d, [region |-> region, cs |-> cs])

RECURSIVE Flatten(_)
Flatten(d) == IF d = <<>> THEN <<>> ELSE Head(d).cs \o Flatten(Tail(d))

(***************************************************************************)
(* The __main__ script, lines 136-172.                                     *)
(***************************************************************************)
RECURSIVE SeqsUpTo(_, _)
SeqsUpTo(S, n) ==
    IF n = 0 THEN {<<>>}
    ELSE LET shorter == SeqsUpTo(S, n - 1)
         IN  shorter \cup {Append(q, x) : q \in {t \in shorter : Len(t) = n - 1}, x \in S}

\* country names a persisted fao-regions.json may hold
SnapshotNames == {kenya, Kenya, SouthAfrica, GuineaBissau}

\* json.loads(region_file.read_text('utf8')), line 146
Snapshots ==
    {<<[region |-> "africa", cs |-> li]>> : li \in SeqsUpTo(SnapshotNames, MaxCountries)}

\* the first region at index >= r whose list is not empty, Len(d) + 1 if none
FirstRegion(d, r) ==
    LET ok == {i \in r..Len(d) : d[i].cs # <<>>}
    IN  IF ok = {} THEN Len(d) + 1 ELSE CHOOSE i \in ok : \A j \in ok : i <= j

\* the script enters the country loops of lines 159-165 with mapping d
EnterLoop(d) ==
    /\ countries' = d
    /\ ri' = FirstRegion(d, 1)
    /\ ci' = 1
    /\ pc' = IF FirstRegion(d, 1) > Len(d) THEN "report" ELSE "countries"

\* lines 140-141: the single-URL parse of kenya, outside any try
SingleParse ==
    /\ pc = "single"
    /\ \E env \in EnvsFor(kenya) : Invoke(kenya, CountryUrl(kenya), TRUE, TRUE, env)
    /\ pc' = IF last'.result.kind = "raise" THEN "crashed" ELSE "regions"
    /\ UNCHANGED <<countries, ri, ci, lastList, attempted, report>>

\* lines 145-146: fao-regions.json exists and is loaded
LoadRegions ==
    /\ pc = "regions"
    /\ \E m \in Snapshots : EnterLoop(m)
    /\ UNCHANGED <<fs, last, lastList, attempted, report, late, ncalls>>

\* lines 148-155: one iteration of the region loop
FetchRegion ==
    /\ pc \in {"regions", "fetch"}
    /\ ri <= Len(regions)
    /\ \E status \in Statuses, body \in {<<>>, SiteListing(regions[ri])} :
         LET r == regions[ri]
             cs == get_countries(status, body)
             d == DictUpdate(countries, r, cs)
         IN  /\ Len(Flatten(d)) <= MaxCountries
             /\ lastList' = [made |-> TRUE, region |-> r, status |-> status,
                             body |-> body, cs |-> cs]
             /\ IF ri < Len(regions)
                THEN /\ countries' = d
                     /\ ri' = ri + 1
                     /\ ci' = ci
                     /\ pc' = "fetch"
                ELSE EnterLoop(d)
    /\ UNCHANGED <<fs, last, attempted, report, late, ncalls>>

\* lines 160-165: one iteration of the country loop, failures caught
ParseCountry ==
    /\ pc = "countries"
    /\ LET c == countries[ri].cs[ci]
       IN  /\ \E env \in EnvsFor(c) : Invoke(c, CountryUrl(Normalize(c)), TRUE, TRUE, env)
           /\ attempted' = Append(attempted, c)
    /\ IF ci < Len(countries[ri].cs)
       THEN /\ ci' = ci + 1
            /\ ri' = ri
            /\ pc' = pc
       ELSE /\ ci' = 1
            /\ ri' = FirstRegion(countries, ri + 1)
            /\ pc' = IF FirstRegion(countries, ri + 1) > Len(countries)
                     THEN "report" ELSE "countries"
    /\ UNCHANGED <<countries, lastList, report>>

\* Path('save').glob(pattern) for a pattern  prefix*suffix
Glob(files, prefix, suffix) ==
    { f.name : f \in { g \in files : /\ g.dir = SAVE_PATH
                                      /\ Len(g.name) >= Len(prefix) + Len(suffix)
                                      /\ StartsWith(g.name, prefix)
                                      /\ EndsWith(g.name, suffix) } }

\* line 168
with_desc(files) == { LastToken(Remove(n, DotPdf)) : n \in Glob(files, DescPrefix, DotPdf) }
\* line 169
with_pdf(files) == { LastToken(Remove(n, ZeroDotPdf)) : n \in Glob(files, FoodPrefix, ZeroDotPdf) }
\* line 170
diff(files) == with_desc(files) \ with_pdf(files)

\* lines 167-172: the reconciliation report
Report ==
    /\ pc = "report"
    /\ report' = diff(fs)
    /\ pc' = "done"
    /\ UNCHANGED <<fs, countries, ri, ci, last, lastList, attempted, late, ncalls>>

Init ==
    /\ fs = {}
    /\ pc = "single"
    /\ countries = <<>>
    /\ ri = 1
    /\ ci = 1
    /\ last = NoCall
    /\ lastList = NoList
    /\ attempted = <<>>
    /\ report = {}
    /\ late = {}
    /\ ncalls = 0

Next == SingleParse \/ LoadRegions \/ FetchRegion \/ ParseCountry \/ Report

Spec == Init /\ [][Next]_vars

(***************************************************************************)
(* The pipeline on its own: parse invoked repeatedly, for any country and  *)
(* any setting of pause and stepwise, on the files earlier calls left.     *)
(***************************************************************************)
PipelineNames == {kenya, SouthAfrica}

\* the settings of pause and stepwise tried: the driver's (a pause, caching on)
\* and the opposite of each
Settings == {[pause |-> TRUE, stepwise |-> TRUE], [pause |-> FALSE, stepwise |-> FALSE]}

Call ==
    /\ pc = "pipeline"
    /\ ncalls < MaxCalls
    /\ \E c \in PipelineNames, a \in Settings : \E env \in EnvsFor(c) :
         Invoke(c, CountryUrl(Normalize(c)), a.pause, a.stepwise, env)
    /\ UNCHANGED <<pc, countries, ri, ci, lastList, attempted, report>>

InitPipeline ==
    /\ fs = {}
    /\ pc = "pipeline"
    /\ countries = <<>>
    /\ ri = 1
    /\ ci = 1
    /\ last = NoCall
    /\ lastList = NoList
    /\ attempted = <<>>
    /\ report = {}
    /\ late = {}
    /\ ncalls = 0

NextPipeline == Call

SpecPipeline == InitPipeline /\ [][NextPipeline]_vars

(***************************************************************************)
(* Properties of the pipeline, checked under SpecPipeline.                 *)
(***************************************************************************)
\* the addresses requested by an invocation, in order
GetUrls(trace) ==
    LET gets == SelectSeq(trace, LAMBDA e : e.op = "get")
    IN  [i \in DOMAIN gets |-> gets[i].url]

\* the files that exist after the latest invocation and did not before
Created == fs \ last.before

\* the latest invocation found no description PDF and went on to fetch
Fetched == last.made /\ page_file(last.c) \notin last.before

\* the latest invocation got as far as link extraction
Extracted ==
    /\ Fetched
    /\ last.env.status = HTTP_OK
    /\ last.env.render = "ok"
    /\ ~(last.stepwise /\ last.env.disk = "denied")

\* C1: when the description PDF of c exists at the call, parse(c, url) issues
\* no request, makes no pause, writes and renders nothing, leaves the files as
\* they were and returns the path of that description PDF (so a repeated call
\* returns the same path again).
C1_DuplicateSkip ==
    (last.made /\ page_file(last.c) \in last.before) =>
        /\ last.trace = <<>>
        /\ fs = last.before
        /\ last.result = Returned(page_file(last.c))

\* a third invocation, asked to pause, found the description PDF in place
C1_Witness ==
    /\ last.made
    /\ page_file(last.c) \in last.before
    /\ last.pause
    /\ ncalls = 3
    /\ last.result.kind = "return"

\* C2: when the description PDF does not exist and the GET of the country page
\* answers a status other than 200, parse fails with an error that carries the
\* resolved URL, and the files are exactly those from before the call.
C2_FetchFailure ==
    (Fetched /\ last.env.status # HTTP_OK) =>
        /\ last.result.kind = "raise"
        /\ last.result.text = "invalid url"
        /\ last.result.url = Resolved(last.url, last.env)
        /\ fs = last.before
        /\ \A i \in DOMAIN last.trace : last.trace[i].op \notin {"write", "render"}

\* a redirected page fetch failed while files of an earlier call were present
C2_Witness ==
    /\ Fetched
    /\ last.env.status # HTTP_OK
    /\ last.env.redirected
    /\ last.result.url # last.url
    /\ last.before # {}

\* the 1-based positions of the selected links whose GET answers a non-200
BadLinks == {i \in 1..Len(find_all(last.env.page)) : last.env.dl[i] # HTTP_OK}
FirstBad == CHOOSE i \in BadLinks : \A j \in BadLinks : i <= j

\* C3: once a step of parse fails, no later step runs. A failed page fetch is
\* the only request and creates nothing; a failed render or cache write is
\* followed by no request and no further file; with zero matching links no
\* guideline PDF is created and nothing is requested; when the fetch of link i
\* fails, the requests are the page and links 0..i, and no guideline or cache
\* file of index >= i is created.
C3_AbortOnFirstFailure ==
    LET c == last.c
        found == find_all(last.env.page)
        pageOnly == GetUrls(last.trace) = <<last.url>>
    IN  /\ (Fetched /\ last.env.status # HTTP_OK) =>
              last.result.kind = "raise" /\ pageOnly /\ Created = {}
        /\ (Fetched /\ last.env.status = HTTP_OK /\ last.env.render # "ok") =>
              /\ last.result.kind = "raise"
              /\ pageOnly
              /\ Created \subseteq {page_file(c)}
              /\ \A i \in DOMAIN last.trace : last.trace[i].op # "write"
        /\ (Fetched /\ last.stepwise /\ last.env.disk = "denied") =>
              last.result.kind = "raise" /\ pageOnly /\ Created \subseteq {page_file(c)}
        /\ (Extracted /\ found = <<>>) =>
              /\ last.result.kind = "raise"
              /\ pageOnly
              /\ GuidesOf(c, fs) = GuidesOf(c, last.before)
              /\ Created \subseteq {page_file(c), f1(c)}
        /\ (Extracted /\ BadLinks # {}) =>
              /\ last.result.kind = "raise"
              /\ GetUrls(last.trace) =
                    <<last.url>> \o [i \in 1..FirstBad |-> found[i].href]
              /\ \A j \in (FirstBad - 1)..(Len(found) - 1) :
                    fn(c, j) \notin Created /\ f2(c, j) \notin Created

\* the first of two selected links failed, with caching on: its sibling waits
C3_Witness ==
    /\ Extracted
    /\ last.stepwise
    /\ Len(find_all(last.env.page)) = 2
    /\ last.env.dl[1] # HTTP_OK
    /\ last.env.dl[2] = HTTP_OK
    /\ last.result.kind = "raise"

\* C6 (as stated): every link the pipeline requests is the href of an anchor
\* element that contains the literal substring ".pdf", and an invocation that
\* succeeds has requested every such anchor.
C6_LinkSelection ==
    Extracted =>
        LET urls == GetUrls(last.trace)
            wanted == SelectSeq(last.env.page,
                                LAMBDA e : e.tag = "a" /\ Contains(e.href, DotPdf))
        IN  /\ \A k \in 2..Len(urls) :
                  \E i \in DOMAIN last.env.page :
                      /\ last.env.page[i].tag = "a"
                      /\ last.env.page[i].href = urls[k]
                      /\ Contains(urls[k], DotPdf)
            /\ last.result.kind = "return" => Len(urls) = 1 + Len(wanted)

\* C9 (as stated): with caching on, whenever the page fetch answered 200 (and
\* the cache directory is writable) the raw page is in cache/{country}-url
\* after the invocation, also when rendering failed.
C9_CacheBeforeRender ==
    (Fetched /\ last.stepwise /\ last.env.status = HTTP_OK /\ last.env.disk = "ok") =>
        f1(last.c) \in fs

\* C10: once parse(c, ..) has failed at link extraction or at a link download,
\* every later invocation for c takes the duplicate branch (no request, the
\* description path returned) and the guideline PDFs of c stay what they were
\* at that failure.
C10_NoRetryAfterLateFailure ==
    [][\A h \in late :
          /\ GuidesOf(h.c, fs') = h.guides
          /\ (ncalls' = ncalls + 1 /\ last'.c = h.c) =>
                /\ last'.trace = <<>>
                /\ last'.result = Returned(page_file(h.c))]_vars

\* a country that failed late was invoked again and answered as a duplicate
C10_Witness ==
    /\ last.made
    /\ \E h \in late : h.c = last.c
    /\ ~LateFailure(last.result)
    /\ last.trace = <<>>
    /\ ncalls >= 2

(***************************************************************************)
(* Properties of the run driver, checked under Spec.                       *)
(***************************************************************************)
Range(q) == {q[i] : i \in DOMAIN q}

\* the country names the run has handed to parse
Processed == {kenya} \cup Range(attempted)

\* C4 (as stated): no failure of a country's pipeline terminates the run, and
\* a run that reaches the reconciliation report has invoked the pipeline for
\* every country of every region, in mapping order.
C4_PartialFailureTolerance ==
    /\ pc # "crashed"
    /\ pc \in {"report", "done"} => attempted = Flatten(countries)

\* C5 (as stated): the reported set of failed countries is exactly the set of
\* countries with a description PDF in save/ and no guideline PDF in save/.
C5_Reconciliation ==
    pc = "done" =>
        report = {c \in Processed : page_file(c) \in fs /\ GuidesOf(c, fs) = {}}

\* C7 (as stated): no file is created whose name holds an upper-case letter
\* or a whitespace character, and the files an invocation of the country
\* loop creates are named by the normalized country name.
C7_NormalizedNames ==
    /\ \A f \in fs : \A i \in DOMAIN f.name :
          ~IsUpper(f.name[i]) /\ f.name[i] \notin Whitespace
    /\ (last.made /\ attempted # <<>>) =>
          \A f \in Created :
              \/ f \in {page_file(Normalize(last.c)), f1(Normalize(last.c))}
              \/ \E idx \in 0..1 : f \in {fn(Normalize(last.c), idx), f2(Normalize(last.c), idx)}

\* C8 (as stated): a response whose body is parsed or written has status
\* 200; a region listing that answers another status makes the directory
\* builder fail, which ends the run, and no country list is derived from it.
C8_StatusChecked ==
    /\ (lastList.made /\ lastList.status # HTTP_OK) =>
          pc = "crashed" /\ lastList.cs = <<>>
    /\ (last.made /\ last.env.status # HTTP_OK) =>
          \A i \in DOMAIN last.trace : last.trace[i].op \notin {"write", "render"}

====
